---- MODULE Spec2Model ----
(***************************************************************************)
(* Model of src/sampleCodes/rust.rs: the process-wide GLOBAL_COUNTER, the  *)
(* InMemoryRepository built on it, the User record, and the Status enum    *)
(* with its Display rendering and process_status classification.           *)
(*                                                                         *)
(* Three specifications share the module:                                  *)
(*   Spec        threads building repositories and saving into them        *)
(*   SpecStatus  process_status and Display applied to every Status value  *)
(*   SpecUser    User::new, add_role and with_metadata                     *)
(***************************************************************************)
EXTENDS Integers, Sequences, FiniteSets, TLC

(***************************************************************************)
(* Bounds of the model.                                                    *)
(***************************************************************************)
\* GLOBAL_COUNTER is an AtomicUsize; the model keeps the wrapping arithmetic
\* of usize and scales its width from 64 (or 32) bits to UsizeBits bits.
UsizeBits == 2
\* calls of save the threads make in one run
MaxSaves == 5
\* Failed codes range over -MaxCode..MaxCode
MaxCode == 12
\* calls of add_role / with_metadata on one User
MaxRoles == 3

(***************************************************************************)
(* Program constants.                                                      *)
(***************************************************************************)
\* progress: u8
U8Max == 255

UsizeModulus == 2 ^ UsizeBits

Threads == {"t1", "t2"}
Stores == {"r1", "r2"}

VARIABLES
    GLOBAL_COUNTER,  \* the static AtomicUsize
    live,            \* the repositories that InMemoryRepository::new has built
    items,           \* items[s]: the HashMap<u64, T> of repository s
    frame,           \* frame[t]: the activation of save thread t is inside, or Idle
    calls,           \* history: number of fetch_add calls so far
    issued,          \* history: the values fetch_add has returned
    savelog,         \* history: savelog[s], the saves on s in order of their return
    born,            \* history: born[s], GLOBAL_COUNTER when s was built
    status,          \* the Status value under inspection
    label,           \* what process_status returned for it
    rendered,        \* what Display wrote for it
    user,            \* the User under construction
    passed,          \* history: the labels passed to add_role, in call order
    uop              \* the last User operation and the User it acted on

repoVars == <<GLOBAL_COUNTER, live, items, frame, calls, issued, savelog, born>>
statusVars == <<status, label, rendered>>
userVars == <<user, passed, uop>>
vars == <<repoVars, statusVars, userVars>>

\* Option::None, and the absence of a value in the bookkeeping variables
None == [tag |-> "None"]
Some(v) == [tag |-> "Some", value |-> v]
Idle == [tag |-> "Idle"]

(***************************************************************************)
(* HashMap: a finite map, as a function on its key set.                    *)
(***************************************************************************)
\* HashMap::new()
HashMap_new == [k \in {} |-> None]

\* HashMap::insert(k, v): binds k to v, replacing any value k was bound to
HashMap_insert(m, k, v) == [x \in (DOMAIN m) \cup {k} |-> IF x = k THEN v ELSE m[x]]

\* HashMap::get(&k)
HashMap_get(m, k) == IF k \in DOMAIN m THEN Some(m[k]) ELSE None

\* HashMap::values().collect(): every value once per key, in an order the map
\* chooses (unspecified, fixed for a given map)
RECURSIVE HashMap_values(_)
HashMap_values(m) ==
    IF DOMAIN m = {} THEN <<>>
    ELSE LET k == CHOOSE x \in DOMAIN m : TRUE
             rest == [x \in (DOMAIN m) \ {k} |-> m[x]]
         IN  <<m[k]>> \o HashMap_values(rest)

(***************************************************************************)
(* User                                                                    *)
(***************************************************************************)
\* User::new
User_new(id, name, email) ==
    [id |-> id, name |-> name, email |-> email, roles |-> <<>>, metadata |-> HashMap_new]

\* add_role that skips a label the User already has
User_add_role_unique(self, role) ==
    IF \E i \in 1 .. Len(self.roles) : self.roles[i] = role
    THEN self
    ELSE [self EXCEPT !.roles = Append(@, role)]

\* User::add_role: self.roles.push(role.to_string()); self
User_add_role(self, role) == [self EXCEPT !.roles = Append(@, role)]

\* User::with_metadata: self.metadata.insert(key, value); self
User_with_metadata(self, key, value) ==
    [self EXCEPT !.metadata = HashMap_insert(@, key, value)]

UserIds == {0, 1}
Names == {"Alice", "Bob"}
Emails == {"a@x.com", "alice@example.com"}
Roles == {"admin", "user"}
MetaKeys == {"team"}
MetaValues == {"core", "infra"}

UserInit ==
    /\ user = None
    /\ passed = <<>>
    /\ uop = Idle

\* let mut user = User::new(id, name, email)
NewUser(id, name, email) ==
    /\ user = None
    /\ user' = User_new(id, name, email)
    /\ passed' = <<>>
    /\ uop' = [tag |-> "new", id |-> id, name |-> name, email |-> email]
    /\ UNCHANGED <<repoVars, statusVars>>

\* user.add_role(role)
AddRole(role) ==
    /\ user # None
    /\ Len(passed) < MaxRoles
    /\ user' = User_add_role(user, role)
    /\ passed' = Append(passed, role)
    /\ uop' = [tag |-> "add_role", before |-> user, role |-> role]
    /\ UNCHANGED <<repoVars, statusVars>>

\* user = user.with_metadata(key, value)
WithMetadata(key, value) ==
    /\ user # None
    /\ user' = User_with_metadata(user, key, value)
    /\ uop' = [tag |-> "with_metadata", before |-> user, key |-> key, value |-> value]
    /\ UNCHANGED <<passed, repoVars, statusVars>>

(***************************************************************************)
(* GLOBAL_COUNTER and InMemoryRepository<User>                             *)
(***************************************************************************)
\* the values saved: Users whose own id field may or may not collide with a key
Items == {User_new(0, "Alice", "a@x.com"), User_new(1, "Bob", "alice@example.com")}

\* the u64 keys a usize counter can produce
Keys == 0 .. (UsizeModulus - 1)

\* AtomicUsize::fetch_add(1, SeqCst): the new value of the counter; the addition
\* wraps around on overflow
fetch_add(c) == (c + 1) % UsizeModulus

\* `as u64` on a usize: zero extension, the value is kept
as_u64(v) == v

\* InMemoryRepository::new
InMemoryRepository_new == HashMap_new

\* Repository::find_by_id
find_by_id(self, id) == HashMap_get(self, id)

\* Repository::find_all
find_all(self) == HashMap_values(self)

\* Repository::count, the provided method
count(self) == Len(find_all(self))

\* the insert of save keyed by the item's own id field
save_insert_by_item_id(self, id, item) == HashMap_insert(self, item.id, item)

\* save, second statement: self.items.insert(id, item)
save_insert(self, id, item) == HashMap_insert(self, id, item)

\* &mut self / &self: no call on s overlaps a save on s
Borrowed(s) == \E t \in Threads : frame[t] # Idle /\ frame[t].self = s

RepoInit ==
    /\ GLOBAL_COUNTER = 0
    /\ live = {}
    /\ items = [s \in Stores |-> HashMap_new]
    /\ frame = [t \in Threads |-> Idle]
    /\ calls = 0
    /\ issued = {}
    /\ savelog = [s \in Stores |-> <<>>]
    /\ born = [s \in Stores |-> 0]

\* let repo = InMemoryRepository::new()
New(s) ==
    /\ s \notin live
    /\ live' = live \cup {s}
    /\ items' = [items EXCEPT ![s] = InMemoryRepository_new]
    /\ born' = [born EXCEPT ![s] = GLOBAL_COUNTER]
    /\ UNCHANGED <<GLOBAL_COUNTER, frame, calls, issued, savelog>>
    /\ UNCHANGED <<statusVars, userVars>>

\* save, first statement: let id = GLOBAL_COUNTER.fetch_add(1, SeqCst) as u64
SaveFetchAdd(t, s, item) ==
    /\ frame[t] = Idle
    /\ s \in live
    /\ ~Borrowed(s)
    /\ calls < MaxSaves
    /\ frame' = [frame EXCEPT ![t] = [tag |-> "save", self |-> s, item |-> item,
                                      id |-> as_u64(GLOBAL_COUNTER)]]
    /\ GLOBAL_COUNTER' = fetch_add(GLOBAL_COUNTER)
    /\ calls' = calls + 1
    /\ issued' = issued \cup {GLOBAL_COUNTER}
    /\ UNCHANGED <<live, items, savelog, born>>
    /\ UNCHANGED <<statusVars, userVars>>

\* save, the rest: self.items.insert(id, item); Ok(())
SaveInsert(t) ==
    /\ frame[t] # Idle
    /\ LET f == frame[t] IN
        /\ items' = [items EXCEPT ![f.self] = save_insert(@, f.id, f.item)]
        /\ savelog' = [savelog EXCEPT ![f.self] = Append(@, [id |-> f.id, item |-> f.item])]
    /\ frame' = [frame EXCEPT ![t] = Idle]
    /\ UNCHANGED <<GLOBAL_COUNTER, live, calls, issued, born>>
    /\ UNCHANGED <<statusVars, userVars>>

StatusIdle ==
    /\ status = None
    /\ label = None
    /\ rendered = None

Init == RepoInit /\ StatusIdle /\ UserInit

Next ==
    \/ \E s \in Stores : New(s)
    \/ \E t \in Threads, s \in Stores, item \in Items : SaveFetchAdd(t, s, item)
    \/ \E t \in Threads : SaveInsert(t)

Spec == Init /\ [][Next]_vars

UserNext ==
    \/ \E id \in UserIds, name \in Names, email \in Emails : NewUser(id, name, email)
    \/ \E role \in Roles : AddRole(role)
    \/ \E key \in MetaKeys, value \in MetaValues : WithMetadata(key, value)

SpecUser == Init /\ [][UserNext]_vars

(***************************************************************************)
(* Status, impl Display for Status, process_status                         *)
(*                                                                         *)
(* A String is the sequence of its characters.                             *)
(***************************************************************************)
Pending == [tag |-> "Pending"]
Running(progress) == [tag |-> "Running", progress |-> progress]
Completed(msg) == [tag |-> "Completed", msg |-> msg]
Failed(code, message) == [tag |-> "Failed", code |-> code, message |-> message]

Messages == {<<>>, <<"o", "k">>, <<"x", "]">>}
Codes == (0 - MaxCode) .. MaxCode

StatusValues ==
    {Pending}
        \cup {Running(p) : p \in 0 .. U8Max}
        \cup {Completed(m) : m \in Messages}
        \cup {Failed(c, m) : c \in Codes, m \in Messages}

\* process_status with the Running guard written `progress >= 50`
process_status_ge(st) ==
    IF st.tag = "Pending" THEN "waiting"
    ELSE IF st.tag = "Running" /\ st.progress >= 50 THEN "almost done"
    ELSE IF st.tag = "Running" THEN "in progress"
    ELSE IF st.tag = "Completed" THEN "done"
    ELSE IF st.tag = "Failed" /\ st.code < 0 THEN "critical error"
    ELSE "error"

\* process_status: the arms of the match in order, the first that matches wins
process_status(st) ==
    IF st.tag = "Pending" THEN "waiting"
    ELSE IF st.tag = "Running" /\ st.progress > 50 THEN "almost done"
    ELSE IF st.tag = "Running" THEN "in progress"
    ELSE IF st.tag = "Completed" THEN "done"
    ELSE IF st.tag = "Failed" /\ st.code < 0 THEN "critical error"
    ELSE "error"

Digit(d) == <<"0", "1", "2", "3", "4", "5", "6", "7", "8", "9">>[d + 1]

\* "{}" of an unsigned integer: its decimal digits, most significant first
RECURSIVE fmt_unsigned(_)
fmt_unsigned(n) ==
    IF n < 10 THEN <<Digit(n)>> ELSE fmt_unsigned(n \div 10) \o <<Digit(n % 10)>>

\* "{}" of an i32: a minus sign before the digits of a negative number
fmt_i32(n) == IF n < 0 THEN <<"-">> \o fmt_unsigned(0 - n) ELSE fmt_unsigned(n)

\* fmt with the arms of Running and Failed written without "%" and ":"
fmt_plain(self) ==
    IF self.tag = "Pending" THEN <<"P", "e", "n", "d", "i", "n", "g">>
    ELSE IF self.tag = "Running" THEN
        <<"R", "u", "n", "n", "i", "n", "g", ":", " ">> \o fmt_unsigned(self.progress)
    ELSE IF self.tag = "Completed" THEN
        <<"C", "o", "m", "p", "l", "e", "t", "e", "d", ":", " ">> \o self.msg
    ELSE
        <<"F", "a", "i", "l", "e", "d", " ", "[">>
            \o fmt_i32(self.code) \o <<"]", " ">> \o self.message

\* <Status as Display>::fmt: what the write! of the matching arm puts out
fmt(self) ==
    IF self.tag = "Pending" THEN <<"P", "e", "n", "d", "i", "n", "g">>
    ELSE IF self.tag = "Running" THEN
        <<"R", "u", "n", "n", "i", "n", "g", ":", " ">>
            \o fmt_unsigned(self.progress) \o <<"%">>
    ELSE IF self.tag = "Completed" THEN
        <<"C", "o", "m", "p", "l", "e", "t", "e", "d", ":", " ">> \o self.msg
    ELSE
        <<"F", "a", "i", "l", "e", "d", " ", "[">>
            \o fmt_i32(self.code) \o <<"]", ":", " ">> \o self.message

StatusInit ==
    /\ status \in StatusValues
    /\ label = None
    /\ rendered = None

\* let s = process_status(status)
ProcessStatus ==
    /\ label = None
    /\ label' = Some(process_status(status))
    /\ UNCHANGED <<status, rendered, repoVars, userVars>>

\* format!("{}", status)
Display ==
    /\ rendered = None
    /\ rendered' = Some(fmt(status))
    /\ UNCHANGED <<status, label, repoVars, userVars>>

StatusNext == ProcessStatus \/ Display

InitStatus == RepoInit /\ UserInit /\ StatusInit

SpecStatus == InitStatus /\ [][StatusNext]_vars

(***************************************************************************)
(* Properties of process_status and Display (under SpecStatus)             *)
(***************************************************************************)
Labels == {"waiting", "almost done", "in progress", "done", "critical error", "error"}

\* C6: process_status returns one of the six labels for every Status, and which
\* one is fixed by the rule table: "waiting" exactly for Pending, "almost done"
\* exactly for Running with progress 51..255, "in progress" exactly for Running
\* with progress 0..50, "done" exactly for Completed, "critical error" exactly
\* for Failed with a code <= -1, "error" exactly for Failed with a code >= 0.
ClassificationFollowsRuleTable ==
    label # None =>
        LET l == label.value IN
        /\ l \in Labels
        /\ (l = "waiting") <=> (status.tag = "Pending")
        /\ (l = "almost done") <=> (status.tag = "Running" /\ status.progress \in 51 .. U8Max)
        /\ (l = "in progress") <=> (status.tag = "Running" /\ status.progress \in 0 .. 50)
        /\ (l = "done") <=> (status.tag = "Completed")
        /\ (l = "critical error") <=> (status.tag = "Failed" /\ status.code \in (0 - MaxCode) .. -1)
        /\ (l = "error") <=> (status.tag = "Failed" /\ status.code \in 0 .. MaxCode)

\* C6 witness: Running at exactly 50 has been classified "in progress"
ClassifiedRunningFifty ==
    /\ status = Running(50)
    /\ label = Some("in progress")

\* reading a decimal numeral back
DigitValue(ch) ==
    CASE ch = "0" -> 0 [] ch = "1" -> 1 [] ch = "2" -> 2 [] ch = "3" -> 3 [] ch = "4" -> 4
      [] ch = "5" -> 5 [] ch = "6" -> 6 [] ch = "7" -> 7 [] ch = "8" -> 8 [] ch = "9" -> 9

IsDigit(ch) == ch \in {"0", "1", "2", "3", "4", "5", "6", "7", "8", "9"}

\* a numeral as Rust prints it: at least one digit, no leading zero but in "0"
IsNumeral(txt) ==
    /\ Len(txt) >= 1
    /\ \A i \in 1 .. Len(txt) : IsDigit(txt[i])
    /\ (Len(txt) > 1 => txt[1] # "0")

RECURSIVE NumeralValue(_)
NumeralValue(txt) ==
    IF Len(txt) = 0 THEN 0
    ELSE 10 * NumeralValue(SubSeq(txt, 1, Len(txt) - 1)) + DigitValue(txt[Len(txt)])

\* txt is the signed numeral of n: "-" only before a numeral of a negative n
IsSignedNumeralOf(txt, n) ==
    IF Len(txt) >= 1 /\ txt[1] = "-"
    THEN /\ IsNumeral(Tail(txt))
         /\ n < 0
         /\ NumeralValue(Tail(txt)) = 0 - n
    ELSE /\ IsNumeral(txt)
         /\ NumeralValue(txt) = n

StartsWith(txt, prefix) ==
    /\ Len(txt) >= Len(prefix)
    /\ SubSeq(txt, 1, Len(prefix)) = prefix

\* the text is "Running: <numeral of progress>%"
IsRunningText(txt, progress) ==
    /\ StartsWith(txt, <<"R", "u", "n", "n", "i", "n", "g", ":", " ">>)
    /\ Len(txt) >= 11
    /\ txt[Len(txt)] = "%"
    /\ IsNumeral(SubSeq(txt, 10, Len(txt) - 1))
    /\ NumeralValue(SubSeq(txt, 10, Len(txt) - 1)) = progress

\* the text is "Failed [<signed numeral of code>]: <message>"
IsFailedText(txt, code, message) ==
    /\ StartsWith(txt, <<"F", "a", "i", "l", "e", "d", " ", "[">>)
    /\ \E k \in 10 .. Len(txt) :
        /\ txt[k] = "]"
        /\ \A j \in 9 .. (k - 1) : txt[j] # "]"
        /\ IsSignedNumeralOf(SubSeq(txt, 9, k - 1), code)
        /\ SubSeq(txt, k, Len(txt)) = <<"]", ":", " ">> \o message

\* C7: Display writes exactly "Pending" for Pending, "Running: {progress}%" for
\* Running, "Completed: {message}" for Completed and "Failed [{code}]: {message}"
\* for Failed, the numbers in decimal, whatever the payload; Running{progress: 42}
\* gives "Running: 42%".
DisplayWritesTheLiteralFormats ==
    rendered # None =>
        LET txt == rendered.value IN
        /\ status.tag = "Pending" => txt = <<"P", "e", "n", "d", "i", "n", "g">>
        /\ status.tag = "Running" => IsRunningText(txt, status.progress)
        /\ status = Running(42) =>
            txt = <<"R", "u", "n", "n", "i", "n", "g", ":", " ", "4", "2", "%">>
        /\ status.tag = "Completed" =>
            txt = <<"C", "o", "m", "p", "l", "e", "t", "e", "d", ":", " ">> \o status.msg
        /\ status.tag = "Failed" => IsFailedText(txt, status.code, status.message)
        /\ status = Failed(-1, <<"o", "k">>) =>
            txt = <<"F", "a", "i", "l", "e", "d", " ", "[", "-", "1", "]", ":", " ", "o", "k">>

\* C7 witness: a Failed status with a negative two-digit code has been rendered
RenderedNegativeFailure ==
    /\ status.tag = "Failed"
    /\ status.code < -9
    /\ status.message # <<>>
    /\ rendered # None

(***************************************************************************)
(* Properties of User (under SpecUser)                                     *)
(***************************************************************************)
\* C8: a User made by new has the id, name and email given and no roles and no
\* metadata; at any time its roles are the labels passed to add_role, in call
\* order with duplicates kept; add_role changes no field but roles.
RolesAreTheLabelsPassed ==
    /\ uop.tag = "new" =>
        /\ user.roles = <<>>
        /\ DOMAIN user.metadata = {}
        /\ user.id = uop.id /\ user.name = uop.name /\ user.email = uop.email
    /\ user # None => user.roles = passed
    /\ uop.tag = "add_role" =>
        /\ user.id = uop.before.id
        /\ user.name = uop.before.name
        /\ user.email = uop.before.email
        /\ user.metadata = uop.before.metadata
        /\ Len(user.roles) = Len(uop.before.roles) + 1

\* C8 witness: new(1, "Alice", "a@x.com"), some metadata, then add_role("admin"),
\* add_role("user") and add_role("admin") again
AliceIsAdminUserAdmin ==
    /\ uop.tag = "add_role"
    /\ user.id = 1 /\ user.name = "Alice" /\ user.email = "a@x.com"
    /\ DOMAIN user.metadata # {}
    /\ user.roles = <<"admin", "user", "admin">>

(***************************************************************************)
(* Properties of GLOBAL_COUNTER and InMemoryRepository (under Spec)        *)
(***************************************************************************)
Quiescent == \A t \in Threads : frame[t] = Idle

\* the identities minted by the saves on s, returned or still running
MintedFor(s) ==
    {savelog[s][i].id : i \in 1 .. Len(savelog[s])}
        \cup {frame[t].id : t \in {u \in Threads : frame[u] # Idle /\ frame[u].self = s}}

RECURSIVE SumOfCounts(_)
SumOfCounts(S) ==
    IF S = {} THEN 0
    ELSE LET s == CHOOSE x \in S : TRUE
         IN  count(items[s]) + SumOfCounts(S \ {s})

\* C1: every call of the allocator, from whichever thread and for whichever
\* repository, returns a value strictly greater than every value a call returned
\* before it (so no two calls return the same value).
AllocatorStrictlyIncreases ==
    [][\A t \in Threads :
          (frame[t] = Idle /\ frame'[t] # Idle) =>
              \A v \in issued : frame'[t].id > v]_vars

\* C2: N calls of the allocator begun with the counter at c (c = 0, process
\* start) leave the counter at c + N, and return exactly N distinct values, all
\* at least c and all less than the counter afterwards.
CounterAdvancesOncePerCall ==
    /\ GLOBAL_COUNTER = 0 + calls
    /\ Cardinality(issued) = calls
    /\ \A v \in issued : 0 <= v /\ v < GLOBAL_COUNTER

\* C3: between calls, count() of a repository is the number of saves made on it
\* (each save returned Ok and added one entry), and is the length of find_all().
CountIsTheNumberOfSaves ==
    \A s \in live :
        ~Borrowed(s) =>
            /\ count(items[s]) = Len(savelog[s])
            /\ count(items[s]) = Len(find_all(items[s]))
            /\ Cardinality(DOMAIN items[s]) = Len(savelog[s])

\* C4: once a fresh repository has taken its first save, and again once it has
\* taken its second, find_by_id on the identity minted for each of these saves
\* gives the item that save was passed; after the second, count() is 2.
TwoSavesAreFoundAgain ==
    \A s \in live :
        (~Borrowed(s) /\ Len(savelog[s]) \in {1, 2}) =>
            /\ \A i \in 1 .. Len(savelog[s]) :
                  find_by_id(items[s], savelog[s][i].id) = Some(savelog[s][i].item)
            /\ Len(savelog[s]) = 2 => count(items[s]) = 2

\* C5: find_by_id(id) on a repository is None for every id no save on that
\* repository minted, ids minted for saves on other repositories included; a
\* repository without saves gives None for every id.
FindByIdMissesForeignIds ==
    /\ \A s \in live, id \in Keys :
          id \notin MintedFor(s) => find_by_id(items[s], id) = None
    /\ \A s \in live :
          (savelog[s] = <<>> /\ ~Borrowed(s)) =>
              \A id \in Keys : find_by_id(items[s], id) = None

\* C5 witness: a repository that holds items gives None for an id that was
\* minted for a completed save on another repository
MissesAnIdOfAnotherStore ==
    \E s \in live, o \in live, id \in Keys :
        /\ s # o
        /\ ~Borrowed(s)
        /\ savelog[s] # <<>>
        /\ id \notin MintedFor(s)
        /\ \E i \in 1 .. Len(savelog[o]) : savelog[o][i].id = id
        /\ find_by_id(items[s], id) = None

\* C9: an identity the allocator has issued is never issued again, the counter
\* does not wrap around to one, and so no save replaces an entry its repository
\* already holds.
IdentitiesAreNeverReused ==
    [][\A t \in Threads :
          /\ (frame[t] = Idle /\ frame'[t] # Idle) => frame'[t].id \notin issued
          /\ (frame[t] # Idle /\ frame'[t] = Idle) =>
                frame[t].id \notin DOMAIN items[frame[t].self]]_vars

\* C10: the key sets of distinct repositories are disjoint; when no save is
\* running, the counts of all repositories add up to GLOBAL_COUNTER; every key of
\* a repository is at least the value GLOBAL_COUNTER had when it was built; each
\* entry holds the item its save was passed, id field included, under the key
\* minted for that save.
StoresShareOneCounter ==
    /\ \A s1, s2 \in Stores :
          s1 # s2 => (DOMAIN items[s1]) \cap (DOMAIN items[s2]) = {}
    /\ Quiescent => SumOfCounts(Stores) = GLOBAL_COUNTER
    /\ \A s \in live : \A k \in DOMAIN items[s] : k >= born[s]
    /\ \A s \in Stores :
          ~Borrowed(s) =>
              \A i \in 1 .. Len(savelog[s]) :
                  /\ savelog[s][i].id \in DOMAIN items[s]
                  /\ items[s][savelog[s][i].id] = savelog[s][i].item

====
